---- MODULE Spec2Model ----
(***************************************************************************)
(* A model of horner_readings.py: the Horner Bible reading plan.           *)
(*                                                                         *)
(* The state is the bookmark file ~/.horner_bible_readings.json, the local *)
(* wall clock and its UTC offset, the parsed command line, and what the    *)
(* last run of the program printed, fetched and raised.                    *)
(*                                                                         *)
(* Time is counted in hours.  `clock` is the local wall-clock time in      *)
(* hours since local midnight of day 0, so the local calendar date is      *)
(* clock \div 24; `tz` is the UTC offset of the local clock in hours, so   *)
(* the instant on the UTC time line is clock - tz.                         *)
(*                                                                         *)
(* The program builds its lists of readings from the embedded BIBLE_YAML.  *)
(* `config` is the configuration of the specifications that exercise the   *)
(* builder, the selector and the program on other, small configurations.   *)
(***************************************************************************)
EXTENDS Integers, Sequences, FiniteSets, TLC

VARIABLES
    file,      \* content of the bookmark file, or NoFile when it is absent
    clock,     \* local wall-clock time, in hours
    tz,        \* UTC offset of the local clock, in hours
    args,      \* the parsed command line of the last run
    before,    \* content of the bookmark file when the last run started
    at,        \* local wall-clock time of the last run
    run,       \* what the last run raised, returned, printed and fetched
    runs,      \* number of runs so far
    advancedOn, \* local date of the last run that changed the day index
    config,    \* a configuration: lists of "book, total_chapters" items
    call,      \* the last call of a function on its own, and what it gave
    procs      \* the runs in progress when two runs share the bookmark file

vars == <<file, clock, tz, args, before, at, run, runs, advancedOn,
          config, call, procs>>

----------------------------------------------------------------------------
(* Bounds of the model *)

\* the general specification runs the program at most this many times
MaxRuns == 3
\* the general specification lets the clock run over this many days
MaxDays == 2
\* the daily specification runs the program on this many consecutive days
MaxYearDays == 368
\* the selector specification selects for every day index up to this one
MaxDayIndex == 41
\* the expander specification expands lists of at most this many books
MaxItems == 2
\* the expander specification gives a book at most this many chapters
MaxChapters == 3

\* the clock of the general specification moves in steps of these many hours
ClockSteps == {8, 24}

\* the hours that can pass in a run between the two reads of the clock of a
\* constructor that creates the bookmark file
RunElapsed == {0, 8}

\* UTC offsets the local clock is drawn from (hours): US Pacific, UTC, Sydney
Offsets == {-8, 0, 10}

----------------------------------------------------------------------------
(* Program constants *)

\* parse_args: choices of -t/--translation
Choices == {"NASB1995", "NIV", "ASV", "ESV", "KJV", "NKJV"}

\* parse_args: default of -t/--translation
NoTranslation == ""

\* the values of -t the model runs the program with
ArgTranslations == {NoTranslation, "ESV", "KJV"}

\* the numbers of fetches that succeed in a run before one raises: none,
\* all but the last, all
FetchOutcomes == {0, 9, 10}

\* the bookmark file does not exist
NoFile == [absent |-> TRUE]

\* update_bookmark: an index below this is incremented, any other is reset
YearLength == 365

\* the number of lists of the plan, and of readings per day
NumLists == 10

\* print_year_of_readings: the number of days of the loop over range(0, 365)
YearDays == 365

\* the value of the day index accessor in a run that never got to read it:
\* the build or the constructor raised, or the run was in year mode
NoIndex == -1

\* no run has changed the day index yet
NoDate == -1

\* BIBLE_YAML: list_1 .. list_10, each item "book, total_chapters"
BIBLE_YAML == <<
    << <<"Matthew", 28>>, <<"Mark", 16>>, <<"Luke", 24>>, <<"John", 21>> >>,
    << <<"Genesis", 50>>, <<"Exodus", 40>>, <<"Leviticus", 27>>,
       <<"Numbers", 36>>, <<"Deuteronomy", 34>> >>,
    << <<"Romans", 16>>, <<"1 Corinthians", 16>>, <<"2 Corinthians", 13>>,
       <<"Galatians", 6>>, <<"Ephesians", 6>>, <<"Philippians", 4>>,
       <<"Colossians", 4>>, <<"Hebrews", 13>> >>,
    << <<"1 Thessalonians", 5>>, <<"2 Thessalonians", 3>>, <<"1 Timothy", 6>>,
       <<"2 Timothy", 4>>, <<"Titus", 3>>, <<"Philemon", 1>>, <<"James", 5>>,
       <<"1 Peter", 5>>, <<"2 Peter", 3>>, <<"1 John", 5>>, <<"2 John", 1>>,
       <<"3 John", 1>>, <<"Jude", 1>>, <<"Revelation", 22>> >>,
    << <<"Job", 42>>, <<"Ecclesiastes", 12>>, <<"Song of Solomon", 8>> >>,
    << <<"Psalms", 150>> >>,
    << <<"Proverbs", 31>> >>,
    << <<"Joshua", 24>>, <<"Judges", 21>>, <<"Ruth", 4>>, <<"1 Samuel", 31>>,
       <<"2 Samuel", 24>>, <<"1 Kings", 22>>, <<"2 Kings", 25>>,
       <<"1 Chronicles", 29>>, <<"2 Chronicles", 36>>, <<"Ezra", 10>>,
       <<"Nehemiah", 13>>, <<"Esther", 10>> >>,
    << <<"Isaiah", 66>>, <<"Jeremiah", 52>>, <<"Lamentations", 5>>,
       <<"Ezekiel", 48>>, <<"Daniel", 12>>, <<"Hosea", 14>>, <<"Joel", 3>>,
       <<"Amos", 9>>, <<"Obadiah", 1>>, <<"Jonah", 4>>, <<"Micah", 7>>,
       <<"Nahum", 3>>, <<"Habakkuk", 3>>, <<"Zephaniah", 3>>, <<"Haggai", 2>>,
       <<"Zechariah", 14>>, <<"Malachi", 4>> >>,
    << <<"Acts", 28>> >>
>>

----------------------------------------------------------------------------
(* Building the ten lists of readings *)

\* BibleChapter.__init__ raises ValueError: no book, or no chapter, given
BibleChapterRaises(book, chapter) == book = "" \/ chapter = -1

\* BibleChapter(book, chapter): the reading <book chapter>
BibleChapter(book, chapter) == [book |-> book, chapter |-> chapter]

\* an inner loop over range(1, total_chapters): it stops a chapter early
BookChapters_short(book, total_chapters) ==
    [chapter \in 1..(total_chapters - 1) |-> BibleChapter(book, chapter)]

\* the inner loop over range(1, total_chapters + 1): the chapters of one
\* book in ascending order, none when total_chapters < 1
BookChapters(book, total_chapters) ==
    [chapter \in 1..total_chapters |-> BibleChapter(book, chapter)]

\* get_chapter_readings_from_yaml(items): all readings of one list of books
RECURSIVE get_chapter_readings_from_yaml(_)
get_chapter_readings_from_yaml(items) ==
    IF items = << >>
    THEN << >>
    ELSE BookChapters(Head(items)[1], Head(items)[2])
             \o get_chapter_readings_from_yaml(Tail(items))

\* get_chapter_readings_from_yaml(items) raises: a BibleChapter that its
\* loops construct raises
ChapterReadingsRaise(items) ==
    \E k \in 1..Len(items) :
        \E chapter \in 1..items[k][2] :
            BibleChapterRaises(items[k][1], chapter)

\* get_book_lists_from_yaml_config() on the configuration yaml
BookListsOf(yaml) == [i \in 1..NumLists |-> yaml[i]]

\* build_readings() on the configuration yaml
BuildReadingsOf(yaml) ==
    [i \in 1..NumLists |-> get_chapter_readings_from_yaml(BookListsOf(yaml)[i])]

\* the exception build_readings() ends with on the configuration yaml:
\* KeyError when it lacks one of list_1 .. list_10, ValueError when a
\* BibleChapter raises
BuildReadingsError(yaml) ==
    IF Len(yaml) < NumLists
    THEN "KeyError"
    ELSE IF \E i \in 1..NumLists : ChapterReadingsRaise(yaml[i])
         THEN "ValueError"
         ELSE "none"

\* get_book_lists_from_yaml_config(): list_1 .. list_10 of BIBLE_YAML
get_book_lists_from_yaml_config == BookListsOf(BIBLE_YAML)

\* build_readings(): the ten lists of readings of BIBLE_YAML
build_readings == BuildReadingsOf(BIBLE_YAML)

\* the exception build_readings() ends with on BIBLE_YAML
build_readings_error == BuildReadingsError(BIBLE_YAML)

\* a selector that counts the days from 1
Selector_from_one(all_chapter_lists, day_index_number) ==
    [i \in 1..NumLists |->
        all_chapter_lists[i]
            [((day_index_number + 1) % Len(all_chapter_lists[i])) + 1]]

\* a selector that first wraps the day index into the year
Selector_within_year(all_chapter_lists, day_index_number) ==
    [i \in 1..NumLists |->
        all_chapter_lists[i]
            [((day_index_number % YearDays) % Len(all_chapter_lists[i])) + 1]]

\* all_chapter_lists[i][day_index_number % len(all_chapter_lists[i])] of
\* print_todays_readings, for the ten lists in order
Selector(all_chapter_lists, day_index_number) ==
    [i \in 1..NumLists |->
        all_chapter_lists[i]
            [(day_index_number % Len(all_chapter_lists[i])) + 1]]

\* the modulo by len(all_chapter_lists[i]) raises ZeroDivisionError
SelectorRaises(all_chapter_lists) ==
    \E i \in 1..NumLists : Len(all_chapter_lists[i]) = 0

\* the lengths of the ten lists of readings
ListLengths == [i \in 1..NumLists |-> Len(build_readings[i])]

\* the positions (0-based) of the readings of day_index_number in the lists
TodaysPositions(day_index_number) ==
    [i \in 1..NumLists |-> day_index_number % ListLengths[i]]

\* the readings tuple of print_todays_readings
TodaysReadings(day_index_number) == Selector(build_readings, day_index_number)

\* a line of the year that selects the readings by its day number
YearLine_by_day_number(all_chapter_lists, i) ==
    <<i + 1>> \o
        [k \in 1..NumLists |->
            all_chapter_lists[k][((i + 1) % Len(all_chapter_lists[k])) + 1]]

\* one line of print_year_of_readings: the day number i + 1, then
\* all_chapter_lists[k][i % len(all_chapter_lists[k])] for the ten lists
YearLine(all_chapter_lists, i) ==
    <<i + 1>> \o
        [k \in 1..NumLists |->
            all_chapter_lists[k][(i % Len(all_chapter_lists[k])) + 1]]

\* the lines of print_year_of_readings: the loop over range(0, 365)
YearOutput(all_chapter_lists) ==
    [n \in 1..YearDays |-> YearLine(all_chapter_lists, n - 1)]

----------------------------------------------------------------------------
(* The clock *)

\* the local calendar date of a wall-clock time
DateOf(c) == c \div 24

\* the local time at wall-clock time c: date, time of day and UTC offset
TimeAt(c) == [date |-> DateOf(c), hour |-> c % 24, utcoffset |-> tz]

\* arrow.now(): the local time now
ArrowNow == TimeAt(clock)

\* the instant of a local time on the UTC time line, in hours
Instant(t) == 24 * t.date + t.hour - t.utcoffset

\* last_updated.split("T")[0]: the date part of the stored timestamp
UpdateDate(last_updated) == last_updated.date

\* arrow.get(update_date): midnight UTC of that date, as an instant
ArrowGet(update_date) == 24 * update_date

\* (now - arrow.get(update_date)).days: whole days, rounded down
Days(now, last_updated) ==
    (Instant(now) - ArrowGet(UpdateDate(last_updated))) \div 24

----------------------------------------------------------------------------
(* JsonBookmark *)

\* parse_args(): the command line of a run
ParseArgs(year, translation, save_settings) ==
    [year |-> year, translation |-> translation,
     save_settings |-> save_settings]

\* create_bookmark without its check of the translation: it writes the
\* bookmark of day 0 whatever the translation
create_bookmark_unchecked(a, now) ==
    [raised |-> FALSE,
     file |-> [day_index_number |-> 0,
               last_updated |-> now,
               translation |-> a.translation]]

\* JsonBookmark.create_bookmark: raises without a translation, else writes
\* the bookmark of day 0
create_bookmark(a, now) ==
    IF a.translation = NoTranslation
    THEN [raised |-> TRUE, file |-> NoFile]
    ELSE [raised |-> FALSE,
          file |-> [day_index_number |-> 0,
                    last_updated |-> now,
                    translation |-> a.translation]]

\* update_bookmark: the day index after a rollover
BumpDayIndex(day_index_number) ==
    IF day_index_number < YearLength
    THEN day_index_number + 1
    ELSE 0

\* update_bookmark that stores the requested translation on every write,
\* with or without --save_settings
update_bookmark_saves_translation(bookmark, a, now) ==
    LET days == Days(now, bookmark.last_updated)
        bumped == IF days > 0
                  THEN [bookmark EXCEPT !.day_index_number =
                            BumpDayIndex(bookmark.day_index_number)]
                  ELSE bookmark
        saved == [bumped EXCEPT !.translation = a.translation]
    IN  IF a.save_settings \/ days > 0
        THEN [bookmark |-> [saved EXCEPT !.last_updated = now],
              wrote |-> TRUE, days |-> days]
        ELSE [bookmark |-> bookmark, wrote |-> FALSE, days |-> days]

\* JsonBookmark.update_bookmark: the bookmark after the call, and whether
\* the call wrote it to the file
update_bookmark(bookmark, a, now) ==
    LET days == Days(now, bookmark.last_updated)
        bumped == IF days > 0
                  THEN [bookmark EXCEPT !.day_index_number =
                            BumpDayIndex(bookmark.day_index_number)]
                  ELSE bookmark
        saved == IF a.save_settings
                 THEN [bumped EXCEPT !.translation = a.translation]
                 ELSE bumped
    IN  IF a.save_settings \/ days > 0
        THEN [bookmark |-> [saved EXCEPT !.last_updated = now],
              wrote |-> TRUE, days |-> days]
        ELSE [bookmark |-> bookmark, wrote |-> FALSE, days |-> days]

\* JsonBookmark.__init__: create the file when it is absent, load it, and
\* update it; `file` is the content of the file when the constructor ends.
\* The clock is read twice: create_bookmark reads created_at, and
\* update_bookmark, after the file has been written and loaded, reads now
JsonBookmark(f, a, created_at, now) ==
    LET created == IF f = NoFile
                   THEN create_bookmark(a, created_at)
                   ELSE [raised |-> FALSE, file |-> f]
    IN  IF created.raised
        THEN [raised |-> TRUE, file |-> f, bookmark |-> NoFile, writes |-> 0,
              reads |-> 0, days |-> 0, bumped |-> FALSE]
        ELSE LET updated == update_bookmark(created.file, a, now)
             IN  [raised |-> FALSE,
                  file |-> IF updated.wrote
                           THEN updated.bookmark
                           ELSE created.file,
                  bookmark |-> updated.bookmark,
                  reads |-> 1,
                  days |-> updated.days,
                  bumped |-> updated.bookmark.day_index_number
                                 # created.file.day_index_number,
                  writes |-> (IF f = NoFile THEN 1 ELSE 0)
                             + (IF updated.wrote THEN 1 ELSE 0)]

----------------------------------------------------------------------------
(* Daily mode *)

\* print_todays_readings: the translation this run prints and fetches with
EffectiveTranslation(a, bookmark) ==
    IF a.translation # NoTranslation /\ a.translation # bookmark.translation
    THEN a.translation
    ELSE bookmark.translation

\* BibleChapter.get_url: one call of the fetch collaborator
GetUrl(bible_chapter, translation) ==
    [reading |-> bible_chapter, translation |-> translation]

\* the first n fetches of the readings, in list order
Fetches(readings, translation, n) ==
    [i \in 1..n |-> GetUrl(readings[i], translation)]

\* the lines a daily run prints when its first `fetched` fetches succeed
DailyOutput(readings, translation, fetched) ==
    << <<"Translation:", translation>>, <<"TODAY", readings>> >>
        \o Fetches(readings, translation, fetched)

\* a run that has not happened
NoRun ==
    [error |-> "none", day_index_number |-> NoIndex,
     translation |-> NoTranslation, writes |-> 0, reads |-> 0, days |-> 0,
     stdout |-> << >>, fetches |-> << >>]

\* what a daily run does once build_readings() has returned: the bookmark,
\* the readings, the translation, the output and the fetches
DailyRunOf(all_chapter_lists, a, bookmark, fetched) ==
    IF bookmark.raised
    THEN [NoRun EXCEPT !.error = "ValueError"]
    ELSE IF SelectorRaises(all_chapter_lists)
    THEN [NoRun EXCEPT !.error = "ZeroDivisionError",
                       !.day_index_number =
                           bookmark.bookmark.day_index_number,
                       !.writes = bookmark.writes,
                       !.reads = bookmark.reads,
                       !.days = bookmark.days]
    ELSE LET day_index_number == bookmark.bookmark.day_index_number
             readings == Selector(all_chapter_lists, day_index_number)
             effective == EffectiveTranslation(a, bookmark.bookmark)
         IN  [error |-> IF fetched < NumLists THEN "FetchError" ELSE "none",
              day_index_number |-> day_index_number,
              translation |-> effective,
              writes |-> bookmark.writes,
              reads |-> bookmark.reads,
              days |-> bookmark.days,
              stdout |-> DailyOutput(readings, effective, fetched),
              fetches |->
                  Fetches(readings, effective,
                          IF fetched < NumLists
                          THEN fetched + 1 ELSE NumLists)]

\* one whole daily run of the program built on a configuration of which
\* build_readings() gives all_chapter_lists or ends with build_error.
\* `elapsed` hours pass while create_bookmark writes the file, between its
\* read of the clock and the read of update_bookmark; a run that does not
\* create the file reads the clock once
DailyStep(build_error, all_chapter_lists, translation, save_settings, fetched, elapsed) ==
    LET a == ParseArgs(FALSE, translation, save_settings)
        bookmark == JsonBookmark(file, a, ArrowNow, TimeAt(clock + elapsed))
    IN  /\ elapsed > 0 => (/\ build_error = "none"
                           /\ file = NoFile
                           /\ translation # NoTranslation)
        /\ args' = a
        /\ before' = file
        /\ clock' = clock + elapsed
        /\ at' = clock + elapsed
        /\ runs' = runs + 1
        /\ IF build_error # "none"
           THEN /\ file' = file
                /\ run' = [NoRun EXCEPT !.error = build_error]
                /\ advancedOn' = advancedOn
           ELSE /\ file' = bookmark.file
                /\ run' = DailyRunOf(all_chapter_lists, a, bookmark, fetched)
                /\ advancedOn' = IF ~bookmark.raised /\ bookmark.bumped
                                 THEN DateOf(clock + elapsed)
                                 ELSE advancedOn
        /\ UNCHANGED <<tz, config, call, procs>>

\* print_todays_readings(args): one whole daily run, in which the first
\* `fetched` calls of the fetch collaborator succeed and the next one raises
print_todays_readings(translation, save_settings, fetched, elapsed) ==
    DailyStep(build_readings_error, build_readings,
              translation, save_settings, fetched, elapsed)

----------------------------------------------------------------------------
(* Year mode *)

\* what a run in year mode does on a configuration of which build_readings()
\* gives all_chapter_lists or ends with build_error
YearRunOf(build_error, all_chapter_lists) ==
    IF build_error # "none"
    THEN [NoRun EXCEPT !.error = build_error]
    ELSE IF SelectorRaises(all_chapter_lists)
    THEN [NoRun EXCEPT !.error = "ZeroDivisionError"]
    ELSE [NoRun EXCEPT !.stdout = YearOutput(all_chapter_lists)]

\* what a run of the program in year mode does
year_of_readings == YearRunOf(build_readings_error, build_readings)

\* one whole run in year mode that does what year_run says
YearStep(year_run, translation, save_settings) ==
    /\ args' = ParseArgs(TRUE, translation, save_settings)
    /\ before' = file
    /\ at' = clock
    /\ runs' = runs + 1
    /\ run' = year_run
    /\ UNCHANGED <<file, clock, tz, advancedOn, config, call, procs>>

\* print_year_of_readings(): one whole run of the program in year mode
print_year_of_readings(translation, save_settings) ==
    YearStep(year_of_readings, translation, save_settings)

\* no function has been called on its own
NoCall == [op |-> "none"]

\* no runs share the bookmark file
NoProcs == << >>

----------------------------------------------------------------------------
(* The general specification: any runs at any times *)

Init ==
    /\ file = NoFile
    /\ clock = 0
    /\ tz \in Offsets
    /\ args = ParseArgs(FALSE, NoTranslation, FALSE)
    /\ before = NoFile
    /\ at = 0
    /\ run = NoRun
    /\ runs = 0
    /\ advancedOn = NoDate
    /\ config = BIBLE_YAML
    /\ call = NoCall
    /\ procs = NoProcs

\* time passes
Tick ==
    /\ \E d \in ClockSteps :
          /\ clock + d < 24 * MaxDays
          /\ clock' = clock + d
    /\ UNCHANGED <<file, tz, args, before, at, run, runs, advancedOn,
                   config, call, procs>>

\* the program is run in daily mode
Daily ==
    /\ runs < MaxRuns
    /\ \E translation \in ArgTranslations, save_settings \in BOOLEAN,
          fetched \in FetchOutcomes, elapsed \in RunElapsed :
          /\ clock + elapsed < 24 * MaxDays
          /\ print_todays_readings(translation, save_settings, fetched,
                                   elapsed)

\* the program is run in year mode
Year ==
    /\ runs < MaxRuns
    /\ \E translation \in {NoTranslation}, save_settings \in {FALSE} :
          print_year_of_readings(translation, save_settings)

Next == Tick \/ Daily \/ Year

Spec == Init /\ [][Next]_vars

----------------------------------------------------------------------------
(* The daily specification: one run at noon of every consecutive day *)

InitDaily ==
    /\ file = NoFile
    /\ clock = 12
    /\ tz \in Offsets
    /\ args = ParseArgs(FALSE, NoTranslation, FALSE)
    /\ before = NoFile
    /\ at = 0
    /\ run = NoRun
    /\ runs = 0
    /\ advancedOn = NoDate
    /\ config = BIBLE_YAML
    /\ call = NoCall
    /\ procs = NoProcs

\* the next day's noon, once today's run is done
NextDay ==
    /\ runs = (clock \div 24) + 1
    /\ runs < MaxYearDays
    /\ clock' = clock + 24
    /\ UNCHANGED <<file, tz, args, before, at, run, runs, advancedOn,
                   config, call, procs>>

\* today's run
DailyRun ==
    /\ runs = clock \div 24
    /\ \E translation \in ArgTranslations \ {NoTranslation},
          save_settings \in BOOLEAN, fetched \in FetchOutcomes,
          elapsed \in RunElapsed :
          /\ DateOf(clock + elapsed) = DateOf(clock)
          /\ print_todays_readings(translation, save_settings, fetched,
                                   elapsed)

NextDaily == NextDay \/ DailyRun

SpecDaily == InitDaily /\ [][NextDaily]_vars

----------------------------------------------------------------------------
(* The selector specification: the selection of the day's readings on its  *)
(* own, on small configurations and on day indexes within and beyond a year *)

\* the numbers of chapters of the first three lists
SelectLengths == {1, 4, 5, 8}

\* a configuration of ten lists, of which the first three are one book of
\* a, b and c chapters
SelectConfig(a, b, c) ==
    << << <<"Ruth", a>> >>,
       << <<"Joel", b>> >>,
       << <<"Amos", c>> >>,
       << <<"Titus", 3>>, <<"Jude", 1>> >>,
       << <<"Haggai", 2>> >>,
       << <<"Obadiah", 1>> >>,
       << <<"Jonah", 4>> >>,
       << <<"Nahum", 3>> >>,
       << <<"Malachi", 4>>, <<"Zephaniah", 3>> >>,
       << <<"Philemon", 1>> >> >>

\* the configurations the selector is exercised on
SelectConfigs ==
    {SelectConfig(a, b, c) : a \in SelectLengths, b \in SelectLengths,
                             c \in SelectLengths}

\* the day indexes the selector is exercised on
SelectDays ==
    (0..MaxDayIndex) \cup {YearDays - 1, YearDays, YearDays + 1, 1000}

InitSelect ==
    /\ file = NoFile
    /\ clock = 0
    /\ tz = 0
    /\ args = ParseArgs(FALSE, NoTranslation, FALSE)
    /\ before = NoFile
    /\ at = 0
    /\ run = NoRun
    /\ runs = 0
    /\ advancedOn = NoDate
    /\ config \in SelectConfigs
    /\ call = NoCall
    /\ procs = NoProcs

\* the readings of one day index are selected from the lists of `config`
Select ==
    /\ \E day_index_number \in SelectDays :
          LET all_chapter_lists == BuildReadingsOf(config)
          IN  call' = [op |-> "select",
                       day_index_number |-> day_index_number,
                       error |-> IF SelectorRaises(all_chapter_lists)
                                 THEN "ZeroDivisionError" ELSE "none",
                       readings |->
                           IF SelectorRaises(all_chapter_lists)
                           THEN << >>
                           ELSE Selector(all_chapter_lists, day_index_number)]
    /\ UNCHANGED <<file, clock, tz, args, before, at, run, runs, advancedOn,
                   config, procs>>

NextSelect == Select

SpecSelect == InitSelect /\ [][NextSelect]_vars

----------------------------------------------------------------------------
(* The expander specification: get_chapter_readings_from_yaml on its own, *)
(* on short lists of books with and without a name and with any number of *)
(* chapters; the list is the only list of `config`                         *)

\* the book names of the lists
ExpandBooks == {"", "Ruth", "Joel"}

\* the items "book, total_chapters" of the lists
ExpandItem == {<<book, total_chapters>> :
                  book \in ExpandBooks, total_chapters \in (-1)..MaxChapters}

\* the lists of at most MaxItems items
ExpandLists ==
    UNION {[1..n -> ExpandItem] : n \in 0..MaxItems}

InitExpand ==
    /\ file = NoFile
    /\ clock = 0
    /\ tz = 0
    /\ args = ParseArgs(FALSE, NoTranslation, FALSE)
    /\ before = NoFile
    /\ at = 0
    /\ run = NoRun
    /\ runs = 0
    /\ advancedOn = NoDate
    /\ config \in {<<items>> : items \in ExpandLists}
    /\ call = NoCall
    /\ procs = NoProcs

\* get_chapter_readings_from_yaml is called on the list of `config`
Expand ==
    /\ call.op = "none"
    /\ LET items == config[1]
       IN  call' = [op |-> "expand",
                    error |-> IF ChapterReadingsRaise(items)
                              THEN "ValueError" ELSE "none",
                    readings |-> IF ChapterReadingsRaise(items)
                                 THEN << >>
                                 ELSE get_chapter_readings_from_yaml(items)]
    /\ UNCHANGED <<file, clock, tz, args, before, at, run, runs, advancedOn,
                   config, procs>>

NextExpand == Expand

SpecExpand == InitExpand /\ [][NextExpand]_vars

----------------------------------------------------------------------------
(* The configuration specification: the program run on other embedded     *)
(* configurations than BIBLE_YAML, complete and incomplete                 *)

\* a complete configuration of ten lists that are not empty
SmallConfig == SelectConfig(4, 5, 8)

\* the configurations the program is run on: a complete one, one without
\* list_10, one whose list_3 has no items, one whose list_1 is a book of
\* no chapters, and one whose list_2 is a book without a name
BuilderConfigs ==
    { SmallConfig,
      SubSeq(SmallConfig, 1, NumLists - 1),
      [SmallConfig EXCEPT ![3] = << >>],
      [SmallConfig EXCEPT ![1] = << <<"Ruth", 0>> >>],
      [SmallConfig EXCEPT ![2] = << <<"", 2>> >>] }

InitConfig ==
    /\ file = NoFile
    /\ clock = 12
    /\ tz = 0
    /\ args = ParseArgs(FALSE, NoTranslation, FALSE)
    /\ before = NoFile
    /\ at = 0
    /\ run = NoRun
    /\ runs = 0
    /\ advancedOn = NoDate
    /\ config \in BuilderConfigs
    /\ call = NoCall
    /\ procs = NoProcs

\* a day passes
ConfigTick ==
    /\ clock + 24 < 24 * MaxDays
    /\ clock' = clock + 24
    /\ UNCHANGED <<file, tz, args, before, at, run, runs, advancedOn,
                   config, call, procs>>

\* the program with the configuration `config` is run in daily mode
ConfigDaily ==
    /\ runs < MaxRuns
    /\ \E translation \in ArgTranslations, save_settings \in BOOLEAN,
          fetched \in FetchOutcomes, elapsed \in RunElapsed :
          /\ clock + elapsed < 24 * MaxDays
          /\ DailyStep(BuildReadingsError(config), BuildReadingsOf(config),
                       translation, save_settings, fetched, elapsed)

\* the program with the configuration `config` is run in year mode
ConfigYear ==
    /\ runs < MaxRuns
    /\ YearStep(YearRunOf(BuildReadingsError(config), BuildReadingsOf(config)),
                NoTranslation, FALSE)

NextConfig == ConfigTick \/ ConfigDaily \/ ConfigYear

SpecConfig == InitConfig /\ [][NextConfig]_vars

----------------------------------------------------------------------------
(* The race specification: two daily runs without --save_settings share    *)
(* an existing bookmark file.  Each run loads the file, then computes its   *)
(* update and opens the file for writing, which truncates it, then writes  *)
(* its bookmark.  Dates are counted from an arbitrary day.                  *)

\* the two runs
Procs == {1, 2}

\* the bookmark file has been opened for writing and not yet written
EmptyFile == [empty |-> TRUE]

\* the day indexes of the bookmark the runs find
RaceIndexes == {0, 1, 364, 365}

\* the wall-clock times, of day 0 and day 1, of the race specification
RaceClocks == {0, 8, 16, 24, 32, 40}

\* the command line of both runs
RaceArgs == ParseArgs(FALSE, NoTranslation, FALSE)

InitRace ==
    /\ tz \in Offsets
    /\ clock \in RaceClocks
    /\ \E day_index_number \in RaceIndexes, updated \in RaceClocks :
          /\ updated <= clock
          /\ file = [day_index_number |-> day_index_number,
                     last_updated |-> TimeAt(updated),
                     translation |-> "ESV"]
    /\ before = file
    /\ args = RaceArgs
    /\ at = clock
    /\ run = NoRun
    /\ runs = 0
    /\ advancedOn = NoDate
    /\ config = BIBLE_YAML
    /\ call = NoCall
    /\ procs = [p \in Procs |-> [pc |-> "start", bookmark |-> NoFile]]

\* JsonBookmark.__init__: the file exists; open it and json.load it, which
\* raises when another run has truncated it
Load(p) ==
    /\ procs[p].pc = "start"
    /\ procs' = [procs EXCEPT ![p] =
                    IF file = EmptyFile
                    THEN [pc |-> "crashed", bookmark |-> NoFile]
                    ELSE [pc |-> "loaded", bookmark |-> file]]
    /\ UNCHANGED <<file, clock, tz, args, before, at, run, runs, advancedOn,
                   config, call>>

\* update_bookmark up to open(self.filepath, 'w'), which truncates the file
OpenForWrite(p) ==
    /\ procs[p].pc = "loaded"
    /\ LET updated == update_bookmark(procs[p].bookmark, RaceArgs, ArrowNow)
       IN  IF updated.wrote
           THEN /\ file' = EmptyFile
                /\ procs' = [procs EXCEPT ![p] =
                                [pc |-> "writing",
                                 bookmark |-> updated.bookmark]]
           ELSE /\ file' = file
                /\ procs' = [procs EXCEPT ![p].pc = "done"]
    /\ UNCHANGED <<clock, tz, args, before, at, run, runs, advancedOn,
                   config, call>>

\* json.dump(self.bookmark, fh) and the close of the file
Dump(p) ==
    /\ procs[p].pc = "writing"
    /\ file' = procs[p].bookmark
    /\ procs' = [procs EXCEPT ![p].pc = "done"]
    /\ UNCHANGED <<clock, tz, args, before, at, run, runs, advancedOn,
                   config, call>>

\* time passes within the calendar day
RaceTick ==
    /\ \E p \in Procs : procs[p].pc \notin {"done", "crashed"}
    /\ DateOf(clock + 8) = DateOf(clock)
    /\ clock' = clock + 8
    /\ UNCHANGED <<file, tz, args, before, at, run, runs, advancedOn,
                   config, call, procs>>

NextRace ==
    \/ \E p \in Procs : Load(p)
    \/ \E p \in Procs : OpenForWrite(p)
    \/ \E p \in Procs : Dump(p)
    \/ RaceTick

SpecRace == InitRace /\ [][NextRace]_vars

----------------------------------------------------------------------------
(* What the last run did, read off the state it left *)

\* the last run was a daily run and found the bookmark file
FoundBookmark == runs > 0 /\ ~args.year /\ before # NoFile

\* the last run was a daily run and found no bookmark file
NoBookmark == runs > 0 /\ ~args.year /\ before = NoFile

\* the last run happened on the local calendar day of the stored timestamp
SameDay == DateOf(at) = before.last_updated.date

\* the last run happened on a later local calendar day than the stored one
LaterDay == DateOf(at) > before.last_updated.date

----------------------------------------------------------------------------
(* The day index *)

\* C1: whatever runs happened since the bookmark file was absent, the
\* persisted day index is an integer in 0..364.
C1_DayIndexInRange ==
    file # NoFile => file.day_index_number \in 0..(YearLength - 1)

\* C2: the first run leaves a fresh bookmark at index 0, and after 365 more
\* runs, each on the day after the previous one, the day index is 0 again.
C2_YearOfAdvancesWraps ==
    /\ (runs = 1 /\ file # NoFile) => file.day_index_number = 0
    /\ (runs = 1 + YearLength /\ file # NoFile) => file.day_index_number = 0

\* C3: once a run on local calendar day D has changed the day index, no
\* later run on day D changes it, with or without --save_settings.
C3_OneAdvancePerDay ==
    [][(runs' = runs + 1 /\ advancedOn = DateOf(clock))
          => (file' # NoFile /\ file # NoFile
              /\ file'.day_index_number = file.day_index_number)]_vars

\* C4: a run without --save_settings on the calendar day of last_updated
\* writes nothing: the persisted record is what it was.
C4_SameDayNoWrite ==
    (FoundBookmark /\ SameDay /\ ~args.save_settings)
        => (file = before /\ run.writes = 0)

\* C5: a run on a later calendar day than last_updated, with the day index
\* below 365, adds exactly 1 to the day index, sets last_updated to now and
\* writes the record.
C5_LaterDayAdvancesByOne ==
    (FoundBookmark /\ LaterDay /\ before.day_index_number < YearLength)
        => /\ file.day_index_number = before.day_index_number + 1
           /\ file.last_updated = TimeAt(at)
           /\ run.writes = 1

\* C6: a run with --save_settings on the calendar day of last_updated sets
\* the translation to the requested one and last_updated to now, writes the
\* record, and leaves the day index as it was.
C6_ForceSaveKeepsDayIndex ==
    (FoundBookmark /\ SameDay /\ args.save_settings)
        => /\ file.translation = args.translation
           /\ file.last_updated = TimeAt(at)
           /\ run.writes = 1
           /\ file.day_index_number = before.day_index_number

\* C7: a run that finds no bookmark file and is given a translation T ends
\* with a persisted record of day index 0 and translation T, and its day
\* index accessor returns 0.
C7_BootstrapAtDayZero ==
    (NoBookmark /\ args.translation # NoTranslation)
        => /\ file # NoFile
           /\ file.day_index_number = 0
           /\ file.translation = args.translation
           /\ run.day_index_number = 0

\* C8: a run that finds no bookmark file and is given no translation fails
\* with the missing-translation error, creates no file and prints nothing.
C8_BootstrapNeedsTranslation ==
    (NoBookmark /\ args.translation = NoTranslation)
        => /\ run.error = "ValueError"
           /\ file = NoFile
           /\ run.writes = 0
           /\ run.stdout = << >>
           /\ run.fetches = << >>

\* a run without a translation found no bookmark file and failed
C8_Witness ==
    /\ NoBookmark
    /\ args.translation = NoTranslation
    /\ run.error = "ValueError"
    /\ file = NoFile

\* C9: the persisted translation of an existing bookmark is always one of
\* NASB1995, NIV, ASV, ESV, KJV, NKJV, never empty.
C9_TranslationInEnum ==
    file # NoFile => file.translation \in Choices

\* C10: a run without --save_settings that finds the bookmark prints and
\* fetches with the requested translation T when one is given, and with the
\* stored one when none is given; either way the persisted translation is
\* what it was, whether or not the run advanced the day index.
C10_OverrideNotPersisted ==
    (FoundBookmark /\ ~args.save_settings)
        => LET effective == IF args.translation # NoTranslation
                            THEN args.translation
                            ELSE before.translation
           IN  /\ run.translation = effective
               /\ file.translation = before.translation
               /\ run.stdout[1] = <<"Translation:", effective>>
               /\ \A i \in 1..Len(run.fetches) :
                      run.fetches[i].translation = effective

\* a run without --save_settings asked for another translation than the
\* stored one, advanced the day index, and fetched all ten readings
C10_Witness ==
    /\ FoundBookmark
    /\ ~args.save_settings
    /\ args.translation # NoTranslation
    /\ args.translation # before.translation
    /\ file.day_index_number # before.day_index_number
    /\ Len(run.fetches) = NumLists
    /\ run.translation = args.translation

----------------------------------------------------------------------------
(* The selector *)

\* the position a cycle of length len is at after d steps from position 0:
\* what is left of d when whole cycles are taken away
CyclePos(len, d) ==
    CHOOSE p \in 0..(len - 1) : \E q \in 0..d : q * len + p = d

RECURSIVE Gcd(_, _)
Gcd(a, b) == IF b = 0 THEN a ELSE Gcd(b, a % b)

\* the least common multiple of two positive numbers
Lcm(a, b) == (a * b) \div Gcd(a, b)

\* the least common multiple of the lengths of the first n lists
RECURSIVE LcmOfLengths(_, _)
LcmOfLengths(all_chapter_lists, n) ==
    IF n = 0
    THEN 1
    ELSE Lcm(LcmOfLengths(all_chapter_lists, n - 1),
             Len(all_chapter_lists[n]))

\* the lengths of the first three lists of the selector's configuration
ToyLengths ==
    LET all_chapter_lists == BuildReadingsOf(config)
    IN  <<Len(all_chapter_lists[1]), Len(all_chapter_lists[2]),
          Len(all_chapter_lists[3])>>

\* the positions (0-based) of the first three selected readings, each list
\* being one book
ToyPositions ==
    <<call.readings[1].chapter - 1, call.readings[2].chapter - 1,
      call.readings[3].chapter - 1>>

\* C11: for lists that are not empty and any day index, within a year or
\* beyond, the selector gives ten readings, the i-th being the reading of
\* list i at position day_index mod length_i; for lengths 4, 5, 8 the day
\* indexes 0, 4 and 20 select positions (0,0,0), (0,4,4) and (0,0,4).
C11_SelectorCyclesEachList ==
    (call.op = "select")
        => LET all_chapter_lists == BuildReadingsOf(config)
               d == call.day_index_number
           IN  /\ call.error = "none"
               /\ DOMAIN call.readings = 1..NumLists
               /\ \A i \in 1..NumLists :
                      call.readings[i] =
                          all_chapter_lists[i]
                              [CyclePos(Len(all_chapter_lists[i]), d) + 1]
               /\ (ToyLengths = <<4, 5, 8>> /\ d = 0)
                      => ToyPositions = <<0, 0, 0>>
               /\ (ToyLengths = <<4, 5, 8>> /\ d = 4)
                      => ToyPositions = <<0, 4, 4>>
               /\ (ToyLengths = <<4, 5, 8>> /\ d = 20)
                      => ToyPositions = <<0, 0, 4>>

\* the readings of day index 20 were selected from lists of 4, 5 and 8
\* readings
C11_Witness ==
    /\ call.op = "select"
    /\ ToyLengths = <<4, 5, 8>>
    /\ call.day_index_number = 20
    /\ ToyPositions = <<0, 0, 4>>

\* C12: the selector gives the same readings for day_index and for
\* day_index + lcm(length_1, .., length_10).
C12_SelectorPeriodIsLcm ==
    (call.op = "select")
        => LET all_chapter_lists == BuildReadingsOf(config)
               lcm == LcmOfLengths(all_chapter_lists, NumLists)
           IN  call.readings =
                   Selector(all_chapter_lists, call.day_index_number + lcm)

\* the readings of a day index were selected from lists of 4, 5 and 8
\* readings, whose lengths with the other seven lists have lcm 840
C12_Witness ==
    /\ call.op = "select"
    /\ ToyLengths = <<4, 5, 8>>
    /\ LcmOfLengths(BuildReadingsOf(config), NumLists) = 840
    /\ call.day_index_number = 7
    /\ ToyPositions = <<3, 2, 7>>

----------------------------------------------------------------------------
(* Year mode *)

\* the last run was a run in year mode
YearRun == runs > 0 /\ args.year

\* C13: a run in year mode prints exactly 365 lines, line n being the day
\* number n followed by the ten readings the selector of daily mode gives
\* for day index n - 1, in list order; it neither reads nor writes the
\* bookmark file and fetches nothing.
C13_YearModeLines ==
    YearRun
        => /\ run.error = "none"
           /\ Len(run.stdout) = 365
           /\ \A n \in 1..365 :
                  /\ Len(run.stdout[n]) = 1 + NumLists
                  /\ run.stdout[n][1] = n
                  /\ SubSeq(run.stdout[n], 2, 1 + NumLists)
                         = Selector(build_readings, n - 1)
           /\ file = before
           /\ run.reads = 0
           /\ run.writes = 0
           /\ run.fetches = << >>

\* a run in year mode printed its lines while a bookmark file existed
C13_Witness ==
    /\ YearRun
    /\ Len(run.stdout) = 365
    /\ run.stdout[365][1] = 365
    /\ file # NoFile
    /\ file = before

----------------------------------------------------------------------------
(* The expander *)

\* the list the expander was called on
ExpandedItems == config[1]

\* every item of the list has a book name and at least one chapter
ValidItems(items) ==
    \A k \in 1..Len(items) : items[k][1] # "" /\ items[k][2] >= 1

\* the sum of the chapter counts of the first n items
RECURSIVE SumCounts(_, _)
SumCounts(items, n) ==
    IF n = 0 THEN 0 ELSE SumCounts(items, n - 1) + items[n][2]

\* C14: for a valid list of (book, chapter_count) pairs the expander gives
\* as many readings as the chapter counts add up to; the books come in the
\* order of the list and chapter c of the k-th book is the c-th reading
\* after the readings of the books before it.
C14_ExpanderEnumeratesChapters ==
    (call.op = "expand" /\ ValidItems(ExpandedItems))
        => LET items == ExpandedItems
           IN  /\ call.error = "none"
               /\ Len(call.readings) = SumCounts(items, Len(items))
               /\ \A k \in 1..Len(items) :
                      \A c \in 1..items[k][2] :
                          call.readings[SumCounts(items, k - 1) + c]
                              = [book |-> items[k][1], chapter |-> c]

\* a list of two books, the first of three chapters, was expanded
C14_Witness ==
    /\ call.op = "expand"
    /\ ValidItems(ExpandedItems)
    /\ Len(ExpandedItems) = 2
    /\ ExpandedItems[1][2] = 3
    /\ Len(call.readings) >= 4
    /\ call.readings[4].chapter = 1

\* C15: the expander fails, and gives no readings, whenever a pair of the
\* list has a chapter count below 1 or an empty book name.
C15_ExpanderRejectsInvalid ==
    (call.op = "expand" /\ ~ValidItems(ExpandedItems))
        => (call.error # "none" /\ call.readings = << >>)

----------------------------------------------------------------------------
(* The list set builder *)

\* the configuration has fewer than ten lists, or a list of it expands to
\* no readings
InvalidListSet ==
    \/ Len(config) < 10
    \/ \E i \in 1..Len(config) :
          /\ ~ChapterReadingsRaise(config[i])
          /\ get_chapter_readings_from_yaml(config[i]) = << >>

\* C16: with fewer than ten lists, or with a list that expands to no
\* readings, a run fails before it prints anything and before the bookmark
\* is created or advanced.
C16_InvalidListSetFailsAtStartup ==
    (runs > 0 /\ InvalidListSet)
        => /\ run.error # "none"
           /\ run.stdout = << >>
           /\ run.writes = 0
           /\ file = before

----------------------------------------------------------------------------
(* Fetch failures and elapsed days *)

\* the step is a daily run
DailyRunStep == runs' = runs + 1 /\ ~args'.year

\* C17: a daily run whose fetch fails has already persisted its day index
\* and, when it wrote, its timestamp; and the next run, when it happens on
\* the same calendar day, shows the same readings and does not advance
\* the day index again.
C17_AdvanceSurvivesFetchFailure ==
    [][/\ (DailyRunStep /\ run'.error = "FetchError")
            => /\ file' # NoFile
               /\ file'.day_index_number = run'.day_index_number
               /\ run'.writes > 0
                      => file'.last_updated \in {TimeAt(clock), TimeAt(clock')}
       /\ (DailyRunStep /\ runs > 0 /\ ~args.year
              /\ run.error = "FetchError" /\ DateOf(clock) = DateOf(at))
            => /\ file'.day_index_number = file.day_index_number
               /\ run'.day_index_number = run.day_index_number
               /\ run'.stdout[2] = run.stdout[2]]_vars

\* C18: the elapsed days a daily run computes are the difference between
\* the local calendar date of now and the local calendar date of the stored
\* last_updated, whatever the times of day and the UTC offset; so the day
\* index changes exactly when the local calendar date has changed.
C18_ElapsedDaysAreCalendarDays ==
    FoundBookmark
        => LET calendar_days == DateOf(at) - before.last_updated.date
           IN  /\ run.days = calendar_days
               /\ (file.day_index_number # before.day_index_number)
                      <=> (calendar_days > 0)

----------------------------------------------------------------------------
(* Daily mode against year mode *)

\* the readings of line n of the year
YearReadings(n) == SubSeq(year_of_readings.stdout[n], 2, 1 + NumLists)

\* C19: with one daily run on each consecutive day from a fresh bookmark,
\* the readings of the n-th day are those of line ((n - 1) mod 365) + 1 of
\* the year.
C19_DailyFollowsYear ==
    (runs > 0 /\ ~args.year /\ run.error \in {"none", "FetchError"})
        => run.stdout[2] = <<"TODAY", YearReadings(((runs - 1) % 365) + 1)>>

----------------------------------------------------------------------------
(* Two runs at once *)

\* both runs have ended
RaceOver == procs # NoProcs /\ \A p \in Procs : procs[p].pc \in {"done", "crashed"}

\* C20: when two daily runs without --save_settings have shared the
\* bookmark file on one calendar day, the persisted day index is what it
\* was before them or one advance further, however their reads and writes
\* interleaved.
C20_RaceAdvancesAtMostOnce ==
    RaceOver
        => /\ file # EmptyFile
           /\ file.day_index_number
                  \in {before.day_index_number,
                       BumpDayIndex(before.day_index_number)}

====
